---- MODULE Spec2Model ----
(***************************************************************************)
(* Model of the kernel-matrix helpers (utils/helpers.py) and of the        *)
(* evaluation harness (exp_mnist_resnet/classify_gp.py).                    *)
(*                                                                         *)
(* Matrices are square (1 x 1 and 2 x 2), stored as sequences of rows.  An *)
(* entry is a double that is either finite or NaN (infinities are left     *)
(* out).  Finite entries are integers counted in units of 1e-5, so that    *)
(* the tolerances rtol = atol = 1e-5 of isSymmetric are decided exactly:   *)
(* |a-b| <= atol + rtol*|b| is, in these units, Tol*|a-b| <= Tol + |b|     *)
(* with Tol = 1e5.  NaN follows IEEE-754: it absorbs every sum and         *)
(* difference and fails every comparison.                                  *)
(*                                                                         *)
(* Arrays live in a heap of named buffers and program variables hold       *)
(* references, so that "returns x itself", "works on a copy" and "mutates  *)
(* in place" are things the model can tell apart.                          *)
(***************************************************************************)
EXTENDS Integers, Sequences, FiniteSets, TLC

VARIABLES
    pc,          \* position of the running entry point
    heap,        \* buffer name -> matrix (None when not allocated)
    env,         \* program variable -> buffer name ("undef" when unbound)
    alloc,       \* initial contents of each np.empty_like buffer, in order
    mask,        \* flat positions drawn by random.sample in deleteValues
    flag,        \* value returned by the last isSymmetric call
    calls,       \* the operations called so far, in order
    out,         \* the report keys printed so far, in order
    solved,      \* the matrices handed to solve_system, in order
    exc,         \* the exception that ended the run ("none" while running)
    file,        \* the train kernel Kxx stored in the input file
    computation, \* FLAGS.computation, in tenths (or NaN)
    jitter,      \* FLAGS.jitter, in units of 1e-5
    fraction,    \* the fraction given to deleteValues, <<numerator, denominator>>
    dtypes       \* the precision of the operands Kxx and Y of a solve

vars == <<pc, heap, env, alloc, mask, flag, calls, out, solved, exc,
          file, computation, jitter, fraction, dtypes>>

---------------------------------------------------------------------------
(* Bounds of the model *)

\* finite entries range over 0..MaxVal (units of 1e-5)
MaxVal == 2
\* fractions are k/d with 1 <= d <= FracDen and 0 <= k <= d
FracDen == 3

---------------------------------------------------------------------------
(* Doubles *)

\* np.nan; a value outside the range of every finite entry of the model
NaN == 1000000
\* 1/rtol = 1/atol of isSymmetric, with entries counted in units of atol
Tol == 100000
\* the threshold 1.0 of the branch on FLAGS.computation, in tenths
One == 10

Finite == 0..MaxVal
Val == Finite \cup {NaN}

IsNaN(v) == v = NaN
Abs(v) == IF v < 0 THEN -v ELSE v
Add(a, b) == IF IsNaN(a) \/ IsNaN(b) THEN NaN ELSE a + b
Sub(a, b) == IF IsNaN(a) \/ IsNaN(b) THEN NaN ELSE a - b
Lt(a, b) == ~IsNaN(a) /\ ~IsNaN(b) /\ a < b
Gt(a, b) == ~IsNaN(a) /\ ~IsNaN(b) /\ a > b

---------------------------------------------------------------------------
(* Matrices *)

None == <<>>
\* the matrices of the model are 1 x 1 and 2 x 2
Dims == {1, 2}
Matrices(n, S) == [1..n -> [1..n -> S]]
AllMatrices == UNION {Matrices(n, Val) : n \in Dims}
Shape(x) == Len(x)
Size(x) == Len(x) * Len(x)
Cells(x) == (1..Len(x)) \X (1..Len(x))
Transpose(x) == [i \in 1..Len(x) |-> [j \in 1..Len(x) |-> x[j][i]]]
HasNaN(x) == \E c \in Cells(x) : IsNaN(x[c[1]][c[2]])
CountNaN(x) == Cardinality({c \in Cells(x) : IsNaN(x[c[1]][c[2]])})
\* row-major (C order) position of a cell in the flattened matrix, from 0
Flat(x, i, j) == (i - 1) * Len(x) + (j - 1)
Range(s) == {s[k] : k \in 1..Len(s)}

---------------------------------------------------------------------------
(* utils/helpers.py *)

\* np.isclose(a, b, rtol=1e-5, atol=1e-5), equal_nan=False, on finite or NaN
isclose_exact(a, b) == ~IsNaN(a) /\ ~IsNaN(b) /\ a = b
isclose_equal_nan(a, b) ==
    \/ IsNaN(a) /\ IsNaN(b)
    \/ ~IsNaN(a) /\ ~IsNaN(b) /\ Tol * Abs(a - b) <= Tol + Abs(b)
isclose(a, b) == ~IsNaN(a) /\ ~IsNaN(b) /\ Tol * Abs(a - b) <= Tol + Abs(b)

\* np.allclose(x, y): every pair of entries is close
allclose(x, y) == \A c \in Cells(x) : isclose(x[c[1]][c[2]], y[c[1]][c[2]])

isSymmetric(x) == allclose(x, Transpose(x))

\* np.triu_indices(n, k=0)
triu_indices(n) == {c \in (1..n) \X (1..n) : c[1] <= c[2]}

\* What np.empty_like(x) may hold: the buffer is not initialised.  Its cells
\* on and above the diagonal are overwritten before they are read, so only
\* the cells below the diagonal are left open.
EmptyLike(x) ==
    {e \in Matrices(Len(x), Val) :
        \A c \in triu_indices(Len(x)) : e[c[1]][c[2]] = 0}

\* constructSymmetricMatrix, with `empty` the initial contents of x_sym
constructSymmetricMatrix(x, empty) ==
    LET n == Len(x)
        x_sym == [i \in 1..n |-> [j \in 1..n |->
                    IF <<i, j>> \in triu_indices(n) THEN x[i][j] ELSE empty[i][j]]]
        diag == [i \in 1..n |-> [j \in 1..n |-> IF i = j THEN x_sym[i][i] ELSE 0]]
    IN  [i \in 1..n |-> [j \in 1..n |->
            Sub(Add(x_sym[i][j], x_sym[j][i]), diag[i][j])]]

\* constructSymmetricMatrixwithTorch: torch.triu zero-fills below the diagonal
constructSymmetricMatrixwithTorch(x) ==
    LET n == Len(x)
        x_up == [i \in 1..n |-> [j \in 1..n |-> IF i <= j THEN x[i][j] ELSE 0]]
        diag == [i \in 1..n |-> [j \in 1..n |-> IF i = j THEN x_up[i][i] ELSE 0]]
    IN  [i \in 1..n |-> [j \in 1..n |->
            Sub(Add(x_up[i][j], x_up[j][i]), diag[i][j])]]

\* diag_add: K.flat[::K.shape[-1] + 1] += diag
diag_add_row_stride(K, diag) ==
    [i \in 1..Len(K) |-> [j \in 1..Len(K) |->
        IF Flat(K, i, j) % Shape(K) = 0 THEN Add(K[i][j], diag) ELSE K[i][j]]]
diag_add(K, diag) ==
    [i \in 1..Len(K) |-> [j \in 1..Len(K) |->
        IF Flat(K, i, j) % (Shape(K) + 1) = 0 THEN Add(K[i][j], diag) ELSE K[i][j]]]

\* int(fraction * x.size), the fraction being fraction[1] / fraction[2]
TruncProductUp(f, size) == (f[1] * size + f[2] - 1) \div f[2]
TruncProduct(f, size) == (f[1] * size) \div f[2]

\* random.sample(range(size), k): k distinct flat positions
Samples(size, k) == {S \in SUBSET (0..(size - 1)) : Cardinality(S) = k}

\* np.put(x, positions, v)
put(x, positions, v) ==
    [i \in 1..Len(x) |-> [j \in 1..Len(x) |->
        IF Flat(x, i, j) \in positions THEN v ELSE x[i][j]]]

\* copy.deepcopy(x) in deleteValues: the buffer that nan_x names
nocopy(ref) == ref
deepcopy(ref) == "nan_x"

\* the differences summed without squaring them
RECURSIVE SumDifferences(_, _, _)
SumDifferences(x, y, k) ==
    IF k = 0 THEN 0
    ELSE LET i == ((k - 1) \div Len(x)) + 1
             j == ((k - 1) % Len(x)) + 1
         IN  Add(Sub(x[i][j], y[i][j]), SumDifferences(x, y, k - 1))
SignedError(x, y) == SumDifferences(x, y, Size(x))

\* computeRMSE(x, y) = sqrt(SquaredError(x, y) / x.size): the sum of the
\* squared differences, NaN as soon as one difference is NaN.  The square root
\* and the division by the positive size are strictly increasing and keep 0
\* and NaN, so the value is 0, NaN, or equal to another value of the same
\* size exactly when the sum is.
RECURSIVE SumSquares(_, _, _)
SumSquares(x, y, k) ==
    IF k = 0 THEN 0
    ELSE LET i == ((k - 1) \div Len(x)) + 1
             j == ((k - 1) % Len(x)) + 1
             d == Sub(x[i][j], y[i][j])
             sq == IF IsNaN(d) THEN NaN ELSE d * d
         IN  Add(sq, SumSquares(x, y, k - 1))
SquaredError(x, y) == SumSquares(x, y, Size(x))

---------------------------------------------------------------------------
(* State *)

Bufs == {"in", "x_sym", "x_sym2", "nan_x", "svd", "soft", "mf", "output", "y"}
Names == {"x", "y", "ret", "ret2", "Kxx", "Kxx_symm", "Kxx_perturbated",
          "Kxx_svd", "Kxx_soft", "Kxx_mf", "output"}
Fractions == {f \in (0..FracDen) \X (1..FracDen) : f[1] <= f[2]}
Computations == {5, One, 15, NaN}
Jitters == {0, 1}
Terminal == {"sym_done", "pert_done", "solve_done", "rmse_done", "done",
             "crashed"}

\* load_kern returns a float64 tensor and main builds Y_1hot as float64
Float64s == [Kxx |-> "float64", Y |-> "float64"]
Dtypes == [Kxx : {"float32", "float64"}, Y : {"float32", "float64"}]

EmptyHeap == [b \in Bufs |-> None]
EmptyEnv == [v \in Names |-> "undef"]

\* the value a program variable refers to
Deref(v) == heap[env[v]]

InitCommon ==
    /\ alloc = <<>>
    /\ mask = {}
    /\ flag = "unset"
    /\ calls = <<>>
    /\ out = <<>>
    /\ solved = <<>>
    /\ exc = "none"

\* a caller holds a matrix x and calls one of the symmetry helpers
InitSym ==
    /\ pc = "sym"
    /\ \E m \in AllMatrices :
        /\ heap = [EmptyHeap EXCEPT !["in"] = m]
        /\ file = m
    /\ env = [EmptyEnv EXCEPT !["x"] = "in"]
    /\ computation = One /\ jitter = 0 /\ fraction = <<0, 1>>
    /\ dtypes = Float64s
    /\ InitCommon

\* a caller holds a matrix x and calls deleteValues(x, fraction)
InitPert ==
    /\ pc = "pert"
    /\ \E m \in AllMatrices :
        /\ heap = [EmptyHeap EXCEPT !["in"] = m]
        /\ file = m
    /\ env = [EmptyEnv EXCEPT !["x"] = "in"]
    /\ fraction \in Fractions
    /\ computation = One /\ jitter = 0
    /\ dtypes = Float64s
    /\ InitCommon

\* classify_gp.main starts: nothing is loaded yet
InitMain ==
    /\ pc = "L34"
    /\ heap = EmptyHeap
    /\ env = EmptyEnv
    /\ file \in AllMatrices
    /\ computation \in Computations
    /\ jitter \in Jitters
    /\ fraction = <<0, 1>>
    /\ dtypes = Float64s
    /\ InitCommon

\* a caller holds a kernel Kxx and targets Y and calls solve_system(Kxx, Y)
\* or solve_system_old(Kxx, Y)
InitSolve ==
    /\ pc = "solve"
    /\ \E m \in AllMatrices :
        /\ heap = [EmptyHeap EXCEPT !["in"] = m]
        /\ file = m
    /\ env = [EmptyEnv EXCEPT !["x"] = "in"]
    /\ dtypes \in Dtypes
    /\ computation = One /\ jitter = 0 /\ fraction = <<0, 1>>
    /\ InitCommon

\* a caller holds two matrices x and y of one shape and calls computeRMSE
InitRmse ==
    /\ pc = "rmse"
    /\ \E n \in Dims : \E m \in Matrices(n, Val) : \E m2 \in Matrices(n, Val) :
        /\ heap = [EmptyHeap EXCEPT !["in"] = m, !["y"] = m2]
        /\ file = m
    /\ env = [EmptyEnv EXCEPT !["x"] = "in", !["y"] = "y"]
    /\ dtypes = Float64s
    /\ computation = One /\ jitter = 0 /\ fraction = <<0, 1>>
    /\ InitCommon

Init == InitSym \/ InitPert \/ InitMain \/ InitSolve \/ InitRmse

---------------------------------------------------------------------------
(* Calls shared by the entry points.  Each states heap', env', alloc', *)
(* mask' and calls'; the caller states the rest.                        *)

\* dst = constructSymmetricMatrix(src), the result in buffer buf
CallConstructSymmetricMatrix(src, dst, buf) ==
    \E e \in EmptyLike(Deref(src)) :
        /\ heap' = [heap EXCEPT ![buf] = constructSymmetricMatrix(Deref(src), e)]
        /\ env' = [env EXCEPT ![dst] = buf]
        /\ alloc' = Append(alloc, e)
        /\ calls' = Append(calls, "constructSymmetricMatrix")
        /\ mask' = mask

\* dst = constructSymmetricIfNotSymmetric(src)
CallConstructSymmetricIfNotSymmetric(src, dst, buf) ==
    IF isSymmetric(Deref(src))
    THEN /\ env' = [env EXCEPT ![dst] = env[src]]
         /\ calls' = Append(calls, "constructSymmetricIfNotSymmetric")
         /\ UNCHANGED <<heap, alloc, mask>>
    ELSE \E e \in EmptyLike(Deref(src)) :
         /\ heap' = [heap EXCEPT ![buf] = constructSymmetricMatrix(Deref(src), e)]
         /\ env' = [env EXCEPT ![dst] = buf]
         /\ alloc' = Append(alloc, e)
         /\ calls' = calls \o <<"constructSymmetricIfNotSymmetric",
                                "constructSymmetricMatrix">>
         /\ mask' = mask

\* dst = deleteValues(src, f)
CallDeleteValues(src, dst, f) ==
    LET x == Deref(src)
        nan_x == deepcopy(env[src])
        prop == TruncProduct(f, Size(x))
    IN  \E m \in Samples(Size(x), prop) :
            /\ heap' = [heap EXCEPT ![nan_x] = put(x, m, NaN)]
            /\ env' = [env EXCEPT ![dst] = nan_x]
            /\ mask' = m
            /\ calls' = Append(calls, "deleteValues")
            /\ alloc' = alloc

---------------------------------------------------------------------------
(* The symmetry helpers, called on their own *)

SymConstruct ==
    /\ pc = "sym"
    /\ CallConstructSymmetricMatrix("x", "ret", "x_sym")
    /\ pc' = "sym_ret"
    /\ UNCHANGED <<flag, out, solved, exc, file, computation, jitter, fraction, dtypes>>

SymConstructTorch ==
    /\ pc = "sym"
    /\ heap' = [heap EXCEPT !["x_sym"] = constructSymmetricMatrixwithTorch(Deref("x"))]
    /\ env' = [env EXCEPT !["ret"] = "x_sym"]
    /\ calls' = Append(calls, "constructSymmetricMatrixwithTorch")
    /\ pc' = "sym_ret"
    /\ UNCHANGED <<alloc, mask, flag, out, solved, exc, file, computation, jitter,
                   fraction, dtypes>>

SymIfNotSymmetric ==
    /\ pc = "sym"
    /\ CallConstructSymmetricIfNotSymmetric("x", "ret", "x_sym")
    /\ pc' = "sym_ret"
    /\ UNCHANGED <<flag, out, solved, exc, file, computation, jitter, fraction, dtypes>>

\* isSymmetric(ret)
SymCheck ==
    /\ pc = "sym_ret"
    /\ flag' = IF isSymmetric(Deref("ret")) THEN "True" ELSE "False"
    /\ calls' = Append(calls, "isSymmetric")
    /\ pc' = "sym_done"
    /\ UNCHANGED <<heap, env, alloc, mask, out, solved, exc, file, computation,
                   jitter, fraction, dtypes>>

\* ret2 = constructSymmetricMatrix(ret)
SymAgain ==
    /\ pc = "sym_ret"
    /\ CallConstructSymmetricMatrix("ret", "ret2", "x_sym2")
    /\ pc' = "sym_done"
    /\ UNCHANGED <<flag, out, solved, exc, file, computation, jitter, fraction, dtypes>>

NextSym == SymConstruct \/ SymConstructTorch \/ SymIfNotSymmetric \/ SymCheck
           \/ SymAgain

---------------------------------------------------------------------------
(* deleteValues, called on its own *)

PertDelete ==
    /\ pc = "pert"
    /\ CallDeleteValues("x", "ret", fraction)
    /\ pc' = "pert_done"
    /\ UNCHANGED <<flag, out, solved, exc, file, computation, jitter, fraction, dtypes>>

---------------------------------------------------------------------------
(* Collaborators of the harness that are not part of the helpers: the     *)
(* completion strategies and the Nystroem approximation.  A strategy      *)
(* returns a matrix of the same shape with the missing entries filled, or *)
(* fails with a numerical error; nothing makes its result symmetric.      *)

Fill == {0, MaxVal}
Filled(x, v) ==
    [i \in 1..Len(x) |-> [j \in 1..Len(x) |->
        IF IsNaN(x[i][j]) THEN v ELSE x[i][j]]]
Completions(x) == {Filled(x, v) : v \in Fill}
NystroemOutputs(n) == Matrices(n, Fill)

---------------------------------------------------------------------------
(* classify_gp.main *)

\* the branch on FLAGS.computation: where the run goes from line 37
ModeInclusive(c) ==
    IF ~Gt(c, One) /\ ~IsNaN(c) THEN "L40" ELSE IF Gt(c, One) THEN "L58" ELSE "L125"
Mode(c) ==
    IF Lt(c, One) THEN "L40" ELSE IF Gt(c, One) THEN "L58" ELSE "L125"

Raise(e) == pc' = "crashed" /\ exc' = e

\* Kxx = load_kern(f["Kxx"], 0)
LoadKern ==
    /\ pc = "L34"
    /\ heap' = [heap EXCEPT !["in"] = file]
    /\ env' = [env EXCEPT !["Kxx"] = "in"]
    /\ calls' = Append(calls, "load_kern")
    /\ pc' = "L35"
    /\ UNCHANGED <<alloc, mask, flag, out, solved, exc, file, computation, jitter,
                   fraction, dtypes>>

\* diag_add(Kxx, FLAGS.jitter), in place
DiagAdd ==
    /\ pc = "L35"
    /\ heap' = [heap EXCEPT ![env["Kxx"]] = diag_add(Deref("Kxx"), jitter)]
    /\ calls' = Append(calls, "diag_add")
    /\ pc' = "L37"
    /\ UNCHANGED <<env, alloc, mask, flag, out, solved, exc, file, computation,
                   jitter, fraction, dtypes>>

Branch ==
    /\ pc = "L37"
    /\ pc' = Mode(computation)
    /\ UNCHANGED <<heap, env, alloc, mask, flag, calls, out, solved, exc, file,
                   computation, jitter, fraction, dtypes>>

\* Kxx_symm = constructSymmetricIfNotSymmetric(Kxx.numpy()); Kxx.numpy()
\* shares the tensor's memory
Symmetrize ==
    /\ pc \in {"L40", "L58", "L125"}
    /\ CallConstructSymmetricIfNotSymmetric("Kxx", "Kxx_symm", "x_sym")
    /\ pc' = CASE pc = "L40" -> "L44" [] pc = "L58" -> "L60" [] pc = "L125" -> "L132"
    /\ UNCHANGED <<flag, out, solved, exc, file, computation, jitter, fraction, dtypes>>

\* assert Y.dtype == torch.float64 (solve_system), and
\* assert Kxx.dtype == torch.float64 and Y.dtype == torch.float64
\* (solve_system_old)
AssertSolveSystem(d) == d.Y = "float64"
AssertSolveSystemOld(d) == d.Kxx = "float64" /\ d.Y = "float64"

\* A = solve_system(var, Y): the assertion, then scipy.linalg.lstsq, which
\* takes a Kxx of any precision and (check_finite=True) rejects one that
\* holds a NaN
SolveSystem(at, var, next) ==
    /\ pc = at
    /\ solved' = Append(solved, [arg |-> var, value |-> Deref(var)])
    /\ calls' = Append(calls, "solve_system")
    /\ IF ~AssertSolveSystem(dtypes) THEN Raise("AssertionError")
       ELSE IF HasNaN(Deref(var)) THEN Raise("ValueError")
       ELSE pc' = next /\ exc' = exc
    /\ UNCHANGED <<heap, env, alloc, mask, flag, out, file, computation, jitter,
                   fraction, dtypes>>

\* print_accuracy(A, K, Y, key)
PrintAccuracy(at, key, next) ==
    /\ pc = at
    /\ out' = Append(out, [key |-> key])
    /\ calls' = Append(calls, "print_accuracy")
    /\ pc' = next
    /\ UNCHANGED <<heap, env, alloc, mask, flag, solved, exc, file, computation,
                   jitter, fraction, dtypes>>

(* computation < 1.0 *)

\* output = nystroem.fit_transform()
NystroemFit ==
    /\ pc = "L44"
    /\ \E o \in NystroemOutputs(Len(Deref("Kxx"))) :
        heap' = [heap EXCEPT !["output"] = o]
    /\ env' = [env EXCEPT !["output"] = "output"]
    /\ calls' = Append(calls, "Nystroem")
    /\ pc' = "L49"
    /\ UNCHANGED <<alloc, mask, flag, out, solved, exc, file, computation, jitter,
                   fraction, dtypes>>

\* print(computeRMSE(Kxx_symm, output))
ReportNystroemError ==
    /\ pc = "L49"
    /\ out' = Append(out, [key |-> "error nystrom",
                           val |-> SquaredError(Deref("Kxx_symm"), Deref("output"))])
    /\ calls' = Append(calls, "computeRMSE")
    /\ pc' = "L50"
    /\ UNCHANGED <<heap, env, alloc, mask, flag, solved, exc, file, computation,
                   jitter, fraction, dtypes>>

SolveOriginal == SolveSystem("L50", "Kxx_symm", "L51")
SolveNystroem == SolveSystem("L51", "output", "L54")
ValidationOriginal == PrintAccuracy("L54", "validation_original", "L55")
ValidationNystroem == PrintAccuracy("L55", "validation_nyst", "done")

(* computation > 1.0 *)

\* print(np.sum(np.isnan(Kxx_symm)))
PrintNans ==
    /\ pc = "L60"
    /\ out' = Append(out, [key |-> "nans", val |-> CountNaN(Deref("Kxx_symm"))])
    /\ pc' = "L62"
    /\ UNCHANGED <<heap, env, alloc, mask, flag, calls, solved, exc, file,
                   computation, jitter, fraction, dtypes>>

\* Kxx_perturbated = deleteValues(Kxx_symm, 0.5)
Perturb ==
    /\ pc = "L62"
    /\ CallDeleteValues("Kxx_symm", "Kxx_perturbated", <<1, 2>>)
    /\ pc' = "L64"
    /\ UNCHANGED <<flag, out, solved, exc, file, computation, jitter, fraction, dtypes>>

\* dst = strategy(Kxx_perturbated): nothing around the call catches a failure
Complete(at, strategy, dst, buf, next) ==
    /\ pc = at
    /\ calls' = Append(calls, strategy)
    /\ \/ /\ \E m \in Completions(Deref("Kxx_perturbated")) :
               heap' = [heap EXCEPT ![buf] = m]
          /\ env' = [env EXCEPT ![dst] = buf]
          /\ pc' = next
          /\ exc' = exc
       \/ /\ Raise("NumericalError")
          /\ UNCHANGED <<heap, env>>
    /\ UNCHANGED <<alloc, mask, flag, out, solved, file, computation, jitter,
                   fraction, dtypes>>

IterativeSVD == Complete("L64", "iterativeSVD", "Kxx_svd", "svd", "L71")
SoftImpute == Complete("L71", "softImpute", "Kxx_soft", "soft", "L78")
MatrixCompletion == Complete("L78", "matrix_completion", "Kxx_mf", "mf", "L82")

\* print(... + str(isSymmetric(Kxx_svd))): the module never imports
\* isSymmetric, so the name lookup raises NameError and lines 83-122 never run
PrintSymmetry ==
    /\ pc = "L82"
    /\ Raise("NameError")
    /\ UNCHANGED <<heap, env, alloc, mask, flag, calls, out, solved, file,
                   computation, jitter, fraction, dtypes>>

(* computation == 1.0 (and every value that is neither below nor above) *)

SolveExact == SolveSystem("L132", "Kxx_symm", "L137")
ValidationExact == PrintAccuracy("L137", "validation", "L143")
TestExact == PrintAccuracy("L143", "test", "done")

NextMain ==
    \/ LoadKern \/ DiagAdd \/ Branch \/ Symmetrize
    \/ NystroemFit \/ ReportNystroemError \/ SolveOriginal \/ SolveNystroem
    \/ ValidationOriginal \/ ValidationNystroem
    \/ PrintNans \/ Perturb \/ IterativeSVD \/ SoftImpute \/ MatrixCompletion
    \/ PrintSymmetry
    \/ SolveExact \/ ValidationExact \/ TestExact

---------------------------------------------------------------------------
(* The solvers, called on their own *)

\* scipy.linalg.solve(assume_a='pos', lower=False, check_finite=False): the
\* Cholesky factorisation reads the upper triangle and fails unless it is that
\* of a positive definite matrix
PositiveDefinite(K) ==
    /\ \A i \in 1..Len(K) : \A j \in i..Len(K) : ~IsNaN(K[i][j])
    /\ K[1][1] > 0
    /\ Len(K) = 2 => K[1][1] * K[2][2] - K[1][2] * K[1][2] > 0

SolveAlone == SolveSystem("solve", "x", "solve_done")

\* A = solve_system_old(Kxx, Y); overwrite_a=True lets scipy use Kxx's own
\* memory as work space
SolveOldAlone ==
    /\ pc = "solve"
    /\ calls' = Append(calls, "solve_system_old")
    /\ IF ~AssertSolveSystemOld(dtypes)
       THEN Raise("AssertionError") /\ UNCHANGED <<heap, solved>>
       ELSE /\ solved' = Append(solved, [arg |-> "x", value |-> Deref("x")])
            /\ IF ~PositiveDefinite(Deref("x"))
               THEN Raise("LinAlgError") /\ UNCHANGED heap
               ELSE /\ pc' = "solve_done"
                    /\ exc' = exc
                    /\ \E m \in {Deref("x")} \cup Matrices(Len(Deref("x")), Finite) :
                          heap' = [heap EXCEPT ![env["x"]] = m]
    /\ UNCHANGED <<env, alloc, mask, flag, out, file, computation, jitter,
                   fraction, dtypes>>

\* computeRMSE(a, b): builds the difference in a new array, reports the error
CallComputeRMSE(at, a, b, next) ==
    /\ pc = at
    /\ pc' = next
    /\ calls' = Append(calls, "computeRMSE")
    /\ out' = Append(out, [key |-> "rmse",
                           val |-> SquaredError(Deref(a), Deref(b))])
    /\ UNCHANGED <<heap, env, alloc, mask, flag, solved, exc, file,
                   computation, jitter, fraction, dtypes>>

RmseXY == CallComputeRMSE("rmse", "x", "y", "rmse_1")
RmseYX == CallComputeRMSE("rmse_1", "y", "x", "rmse_done")

Next ==
    \/ NextSym \/ PertDelete \/ NextMain \/ SolveAlone \/ SolveOldAlone
    \/ RmseXY \/ RmseYX

Spec == Init /\ [][Next]_vars

---------------------------------------------------------------------------
(* Properties *)

\* |a - b| <= atol + rtol * |b| as the contract of is_symmetric words it
WithinTolerance(a, b) ==
    /\ a # NaN
    /\ b # NaN
    /\ (IF a >= b THEN a - b ELSE b - a) * Tol <= Tol + (IF b >= 0 THEN b ELSE -b)
EveryPairWithinTolerance(m) ==
    \A i \in 1..Len(m) : \A j \in 1..Len(m) : WithinTolerance(m[i][j], m[j][i])
ExactlySymmetric(m) ==
    \A i \in 1..Len(m) : \A j \in 1..Len(m) : m[i][j] = m[j][i]
Min(a, b) == IF a <= b THEN a ELSE b
Max(a, b) == IF a >= b THEN a ELSE b
\* U + U^T - diag(U): the upper triangle of m mirrored below the diagonal
Mirror(m) ==
    [i \in 1..Len(m) |-> [j \in 1..Len(m) |-> m[Min(i, j)][Max(i, j)]]]
UpperHasNaN(m) ==
    \E i \in 1..Len(m) : \E j \in 1..Len(m) : i <= j /\ m[i][j] = NaN
\* the entry point's argument x, as the caller built it
Arg == file

SymmetrizedAlone ==
    /\ pc \in {"sym_ret", "sym_done"}
    /\ calls[1] \in {"constructSymmetricMatrix", "constructSymmetricMatrixwithTorch"}

\* C1: symmetrize(M) is M's upper triangle mirrored, M'[i,j] = M'[j,i] =
\* M[min(i,j), max(i,j)], whatever M's lower triangle and the result buffer
\* held before.
C1_SymmetrizeMirrorsUpperTriangle ==
    SymmetrizedAlone => Deref("ret") = Mirror(Arg)

SymmetrizedThenChecked ==
    /\ pc = "sym_done"
    /\ Len(calls) = 2
    /\ calls[1] \in {"constructSymmetricMatrix", "constructSymmetricMatrixwithTorch"}
    /\ calls[2] = "isSymmetric"

\* C2 as claimed: is_symmetric(symmetrize(M)) is true for every M, NaN entries
\* in the upper triangle included.
C2_SymmetrizedIsSymmetric ==
    SymmetrizedThenChecked => flag = "True"

\* C2 as amended: is_symmetric(symmetrize(M)) is true exactly when the result
\* of symmetrize holds no NaN, and false whenever M's upper triangle holds one.
C2_SymmetricUnlessNaN ==
    SymmetrizedThenChecked =>
        /\ flag = "True" <=> ~HasNaN(Deref("ret"))
        /\ UpperHasNaN(Arg) => flag = "False"
        /\ ~HasNaN(Deref("ret")) => ExactlySymmetric(Deref("ret"))

\* an asymmetric 2 x 2 matrix was symmetrized and the result found symmetric
C2_Witness ==
    /\ SymmetrizedThenChecked
    /\ calls[1] = "constructSymmetricMatrix"
    /\ Len(Arg) = 2
    /\ ~ExactlySymmetric(Arg)
    /\ flag = "True"

\* C3: symmetrize(symmetrize_if_needed(M)) equals symmetrize_if_needed(M)
\* entry for entry, for every M.
C3_SymmetrizeIdempotent ==
    (/\ pc = "sym_done"
     /\ calls[1] = "constructSymmetricIfNotSymmetric"
     /\ calls[Len(calls)] = "constructSymmetricMatrix"
     /\ env["ret2"] # "undef")
    => Deref("ret2") = Deref("ret")

\* C4: symmetrize_if_needed(M) returns M itself, unchanged, exactly when every
\* pair of M is within tolerance, and otherwise (so whenever M holds a NaN)
\* returns what symmetrize makes of M in a buffer of its own.
C4_SymmetrizeOnlyIfNeeded ==
    (pc = "sym_ret" /\ calls[1] = "constructSymmetricIfNotSymmetric") =>
        /\ heap["in"] = Arg
        /\ EveryPairWithinTolerance(Arg) <=> env["ret"] = env["x"]
        /\ EveryPairWithinTolerance(Arg) => alloc = <<>>
        /\ ~EveryPairWithinTolerance(Arg) =>
              /\ env["ret"] = "x_sym"
              /\ Len(alloc) = 1
              /\ Deref("ret") = constructSymmetricMatrix(Arg, alloc[1])
        /\ HasNaN(Arg) => env["ret"] # env["x"]

\* a matrix symmetric within tolerance, not exactly, was returned as it is
C4_Witness ==
    /\ pc = "sym_ret"
    /\ calls[1] = "constructSymmetricIfNotSymmetric"
    /\ env["ret"] = env["x"]
    /\ ~ExactlySymmetric(Arg)

\* floor(f * size), for the fraction f = f[1] / f[2]
Floor(f, size) ==
    CHOOSE k \in 0..size : k * f[2] <= f[1] * size /\ f[1] * size < (k + 1) * f[2]
MissingCells(m) == {c \in Cells(m) : m[c[1]][c[2]] = NaN}
MaskedCells(m) == {c \in Cells(m) : (c[1] - 1) * Len(m) + (c[2] - 1) \in mask}

Perturbed == pc = "pert_done"

\* C5 as claimed: perturb(M, f) has exactly floor(f * M.size) missing entries
\* and every other entry is M's, for every M and every f in [0, 1].
C5_MissingCountIsFloor ==
    Perturbed =>
        /\ Cardinality(MissingCells(Deref("ret"))) = Floor(fraction, Size(Arg))
        /\ \A c \in Cells(Arg) \ MissingCells(Deref("ret")) :
              Deref("ret")[c[1]][c[2]] = Arg[c[1]][c[2]]

\* C5 as amended: perturb(M, f) sets exactly floor(f * M.size) distinct
\* positions to missing and leaves every other entry as M has it, missing
\* where M's is; the missing entries number floor(f * M.size) when M has none
\* of its own.  perturb(M, 0) is M and perturb(M, 1) is all missing.
C5_MasksFloorPositions ==
    Perturbed =>
        /\ mask \subseteq 0..(Size(Arg) - 1)
        /\ Cardinality(mask) = Floor(fraction, Size(Arg))
        /\ \A c \in MaskedCells(Arg) : Deref("ret")[c[1]][c[2]] = NaN
        /\ \A c \in Cells(Arg) \ MaskedCells(Arg) :
              Deref("ret")[c[1]][c[2]] = Arg[c[1]][c[2]]
        /\ MissingCells(Deref("ret")) = MaskedCells(Arg) \cup MissingCells(Arg)
        /\ MissingCells(Arg) = {} =>
              Cardinality(MissingCells(Deref("ret"))) = Floor(fraction, Size(Arg))
        /\ fraction[1] = 0 => Deref("ret") = Arg
        /\ fraction[1] = fraction[2] => MissingCells(Deref("ret")) = Cells(Arg)

\* a fraction whose product with the size is not whole, a mask holding a
\* diagonal and a lower-triangle cell
C5_Witness ==
    /\ Perturbed
    /\ Len(Arg) = 2
    /\ ~HasNaN(Arg)
    /\ fraction = <<2, 3>>
    /\ mask = {0, 2}

\* the train kernel after diag_add, and what constructSymmetricIfNotSymmetric
\* made of it
Jittered == diag_add(file, jitter)
KxxSymmValue ==
    IF EveryPairWithinTolerance(Jittered) THEN Jittered
    ELSE constructSymmetricMatrix(Jittered, alloc[1])

\* C6: deleteValues leaves its input as it was, for every fraction; in the
\* harness Kxx_symm (and Kxx) hold after the perturbation what they held
\* before it.
C6_InputUnmodified ==
    /\ Perturbed => env["x"] = "in" /\ heap["in"] = Arg
    /\ (pc \notin {"sym", "sym_ret", "sym_done", "pert", "pert_done"}
        /\ "deleteValues" \in Range(calls)) =>
          /\ Deref("Kxx") = Jittered
          /\ Deref("Kxx_symm") = KxxSymmValue

\* the harness has perturbed a Kxx_symm that is the kernel's own memory
C6_Witness ==
    /\ pc = "L64"
    /\ env["Kxx_symm"] = env["Kxx"]
    /\ ~ExactlySymmetric(Deref("Kxx_symm"))
    /\ mask # {}
    /\ Deref("Kxx_perturbated") # Deref("Kxx_symm")

InMain ==
    /\ pc \notin {"sym", "sym_ret", "sym_done", "pert", "pert_done", "solve",
                  "solve_done", "rmse", "rmse_1", "rmse_done"}
    /\ calls # <<>> => calls[1] = "load_kern"
Ended == InMain /\ pc \in {"done", "crashed"}
Strategies == {"iterativeSVD", "softImpute", "matrix_completion"}
CompletionCalls == {"deleteValues"} \cup Strategies
Called(op) == op \in Range(calls)
\* op1 was called, and op2 after it
CalledInOrder(op1, op2) ==
    \E a \in 1..Len(calls) : \E b \in 1..Len(calls) :
        a < b /\ calls[a] = op1 /\ calls[b] = op2
Keys == [k \in 1..Len(out) |-> out[k].key]

\* C7: main takes one path, chosen by FLAGS.computation: below 1.0 the
\* Nystroem comparison and no perturbation or completion; above 1.0 the
\* perturbation followed by the completion strategies and no Nystroem; at 1.0
\* neither, and the one system solved is that of the jittered kernel as
\* constructSymmetricIfNotSymmetric returned it.
C7_ComputationSelectsPath ==
    InMain =>
        /\ (computation # NaN /\ computation < One) =>
              /\ Range(calls) \cap CompletionCalls = {}
              /\ Ended => Called("Nystroem")
        /\ (computation # NaN /\ computation > One) =>
              /\ ~Called("Nystroem")
              /\ Ended => CalledInOrder("deleteValues", "iterativeSVD")
              /\ Called("softImpute") => CalledInOrder("iterativeSVD", "softImpute")
              /\ Called("matrix_completion") =>
                    CalledInOrder("softImpute", "matrix_completion")
        /\ computation = One =>
              /\ ~Called("Nystroem")
              /\ Range(calls) \cap CompletionCalls = {}
              /\ Ended =>
                    /\ calls = <<"load_kern", "diag_add">>
                               \o (IF Len(alloc) = 0
                                   THEN <<"constructSymmetricIfNotSymmetric">>
                                   ELSE <<"constructSymmetricIfNotSymmetric",
                                          "constructSymmetricMatrix">>)
                               \o <<"solve_system">>
                               \o [k \in 1..Len(out) |-> "print_accuracy"]
                    /\ solved = <<[arg |-> "Kxx_symm", value |-> KxxSymmValue]>>
                    /\ exc = "none" => Keys = <<"validation", "test">>

\* the exact path ran to its end on a kernel that had to be symmetrized
C7_Witness ==
    /\ pc = "done"
    /\ computation = One
    /\ jitter = 1
    /\ env["Kxx_symm"] = "x_sym"
    /\ Keys = <<"validation", "test">>

RmseKeys == <<"Iterative svd error", "SoftImpute error", "Matrix Factorization error">>
ValidationKeys == <<"validation_orig", "validation_svd", "validation_soft",
                    "validation_mf">>
TestKeys == <<"test_orig", "test_svd", "test_soft", "test_mf">>
IsSuffix(s, t) == Len(s) <= Len(t) /\ SubSeq(t, Len(t) - Len(s) + 1, Len(t)) = s

\* C8: with computation > 1.0 and no strategy failing, the run ends normally
\* having reported every RMSE, then every validation accuracy, then every
\* test accuracy.
C8_CompletionPathReports ==
    (/\ Ended
     /\ computation # NaN /\ computation > One
     /\ exc # "NumericalError")
    => /\ pc = "done"
       /\ exc = "none"
       /\ IsSuffix(RmseKeys \o ValidationKeys \o TestKeys, Keys)

\* C9: when a completion strategy fails, the harness catches the failure, the
\* other strategies still run and the run is not aborted.
C9_StrategyFailureIsContained ==
    (Ended /\ exc = "NumericalError")
    => /\ pc = "done"
       /\ Strategies \subseteq Range(calls)

Reconstructions == {"output", "Kxx_svd", "Kxx_soft", "Kxx_mf"}

\* C10: every reconstruction handed to solve_system is symmetric.
C10_SolvedReconstructionsSymmetric ==
    \A k \in 1..Len(solved) :
        solved[k].arg \in Reconstructions => ExactlySymmetric(solved[k].value)

SolvedAlone ==
    /\ pc \in {"solve_done", "crashed"}
    /\ calls # <<>>
    /\ calls[1] \in {"solve_system", "solve_system_old"}

\* C11: solve(K, Y), in either variant, fails with a usage error whenever K or
\* Y is not double precision, and never goes on to solve with such an operand.
C11_SolveRejectsNonDouble ==
    (SolvedAlone /\ (dtypes.Kxx # "float64" \/ dtypes.Y # "float64"))
    => pc = "crashed" /\ exc = "AssertionError"

\* the kernel as loaded, the jitter added to each diagonal entry
LoadedPlusJitter ==
    [i \in 1..Len(file) |-> [j \in 1..Len(file) |->
        IF i # j \/ file[i][j] = NaN THEN file[i][j] ELSE file[i][j] + jitter]]

\* C12: in every mode of main the loaded train kernel changes once, by the
\* jitter added to its diagonal in diag_add; from then on it holds the loaded
\* entries off the diagonal and loaded + jitter on it, whatever runs later.
C12_KernelChangedOnlyByJitter ==
    InMain =>
        /\ pc = "L34" => heap["in"] = None
        /\ pc = "L35" => heap["in"] = file
        /\ pc \notin {"L34", "L35"} =>
              /\ env["Kxx"] = "in"
              /\ heap["in"] = LoadedPlusJitter
        /\ Cardinality({k \in 1..Len(calls) : calls[k] = "diag_add"}) <= 1

\* the Nystroem path ran to its end with Kxx_symm being the kernel's own
\* memory, a jitter added to a 2 x 2 kernel
C12_Witness ==
    /\ pc = "done"
    /\ computation = 5
    /\ jitter = 1
    /\ Len(file) = 2
    /\ env["Kxx_symm"] = env["Kxx"]
    /\ Len(solved) = 2

\* computeRMSE(x, y) and computeRMSE(y, x) have both returned
RmseDone == pc = "rmse_done"
RmseOfXY == out[1].val
RmseOfYX == out[2].val

\* C13 as stated: computeRMSE(x, y) is zero exactly when x and y hold the same
\* entries, NaN at the same positions included, and it equals computeRMSE(y, x).
C13_RmseZeroIffIdentical ==
    RmseDone =>
        /\ RmseOfXY = 0 <=> Deref("x") = Deref("y")
        /\ RmseOfXY = RmseOfYX

\* C13: on matrices without NaN computeRMSE(x, y) is zero exactly when x and y
\* hold the same entries and it equals computeRMSE(y, x); as soon as x or y
\* holds a NaN both computeRMSE(x, y) and computeRMSE(y, x) are NaN, never zero.
C13_RmseZeroIffIdenticalWithoutNaN ==
    RmseDone =>
        IF HasNaN(Deref("x")) \/ HasNaN(Deref("y"))
        THEN IsNaN(RmseOfXY) /\ IsNaN(RmseOfYX)
        ELSE /\ RmseOfXY = 0 <=> Deref("x") = Deref("y")
             /\ RmseOfXY = RmseOfYX
             /\ ~IsNaN(RmseOfXY)

\* both errors of two equal 2 x 2 matrices without NaN have been computed
C13_Witness ==
    /\ RmseDone
    /\ Len(Deref("x")) = 2
    /\ ~HasNaN(Deref("x"))
    /\ Deref("x") = Deref("y")
    /\ Deref("x")[1][2] = MaxVal
    /\ RmseOfXY = 0

====
